---- MODULE Spec2Model ----
(***************************************************************************)
(* A model of aoc_helper/utils.py: the class `iter`, a wrapper around one  *)
(* single-pass Python iterator, and the free functions chunk and           *)
(* chunk_default.                                                          *)
(*                                                                         *)
(* One wrapper `w` is built over a producer P.  The caller first makes any *)
(* number of consuming calls on w (next, skip, nth, take), and then either *)
(* a terminal call (reduce, min, max, collect), a materialising call       *)
(* (sorted, reversed, accumulate), a lazy transformation (map, filter,     *)
(* chunk, chunk_default, window, chain) whose result `d` is then driven,   *)
(* or tee, whose two branches are then driven in any interleaving.         *)
(* Every wrapper built from w shares w's underlying iterator `it`, exactly *)
(* as builtins.iter(self) returns self.it in the source.                   *)
(*                                                                         *)
(* Python values: an element is an integer; a tuple or list is a sequence; *)
(* a scalar result is stored as a one-element sequence; an exception is    *)
(* the name of its class, "none" when nothing was raised.                  *)
(***************************************************************************)
EXTENDS Integers, Sequences, FiniteSets, TLC

\* ------------------------------------------------------------------ bounds
MaxLen == 4
MaxN == 3

Values == {0, 1, 2}
Sizes == (0 - 1)..MaxN
Funcs == {"inc", "dbl"}
Preds == {"None", "odd"}
Others == {<<>>, <<2, 0>>}
Defaults == {9}

\* P         the producer's elements, as given to iter.__init__
\* it        self.it: the elements the underlying iterator has not yielded
\* consumed  the elements next, skip, nth and take obtained, in call order
\* call      the last method call: name, size argument, returned value and
\*           raised exception
\* d         the inner iterator of the wrapper a transformation returned
\* out       what driving that wrapper has yielded, and the exception that
\*           ended the drive
\* tee       itertools.tee's buffer, the two branches' cursors and outputs
VARIABLES P, it, consumed, call, d, out, tee

vars == <<P, it, consumed, call, d, out, tee>>

\* ------------------------------------------------------- sequence helpers
RECURSIVE SeqsUpTo(_)
SeqsUpTo(k) ==
  IF k = 0 THEN {<<>>}
  ELSE LET S == SeqsUpTo(k - 1)
       IN S \cup {Append(s, v) : s \in {t \in S : Len(t) = k - 1}, v \in Values}

Drop(s, k) == SubSeq(s, k + 1, Len(s))

Prefix(s, k) == SubSeq(s, 1, k)

Reverse(s) == [i \in 1..Len(s) |-> s[Len(s) + 1 - i]]

RECURSIVE Flatten(_)
Flatten(ss) == IF ss = <<>> THEN <<>> ELSE Head(ss) \o Flatten(Tail(ss))

Distinct(s) == \A i, j \in 1..Len(s) : i # j => s[i] # s[j]

\* ------------------------------------------------ Python built-in protocol
\* next(iterator) on a list iterator: the head, or StopIteration.
PyNext(i) ==
  IF i = <<>>
    THEN [exc |-> "StopIteration", val |-> <<>>, it |-> i, seen |-> <<>>]
    ELSE [exc |-> "none", val |-> <<Head(i)>>, it |-> Tail(i), seen |-> <<Head(i)>>]

\* The functions and predicates callers pass.
Apply(f, x) == IF f = "inc" THEN x + 1 ELSE 2 * x

Truth(p, x) == IF p = "None" THEN x # 0 ELSE x % 2 = 1

\* PEP 479: a StopIteration that escapes a generator's frame is replaced by
\* RuntimeError.
GenExprRaise(e) == IF e = "StopIteration" THEN "RuntimeError" ELSE e

\* ------------------------------------------------------ consuming methods
\* A next() that returns the head and leaves it in the iterator.
iter_next_peek(i) ==
  IF i = <<>>
    THEN [exc |-> "StopIteration", val |-> <<>>, it |-> i, seen |-> <<>>]
    ELSE [exc |-> "none", val |-> <<Head(i)>>, it |-> i, seen |-> <<Head(i)>>]

\* iter.next: return next(self.it)
iter_next(i) == PyNext(i)

\* A skip() that stops quietly at the end of the iterator.
RECURSIVE iter_skip_quiet(_, _)
iter_skip_quiet(i, n) ==
  IF n <= 0 \/ i = <<>> THEN [exc |-> "none", it |-> i, seen |-> <<>>, val |-> <<>>]
  ELSE LET s == iter_skip_quiet(Tail(i), n - 1)
       IN [exc |-> "none", it |-> s.it, seen |-> <<Head(i)>> \o s.seen, val |-> <<>>]

\* iter.skip: for _ in range(n): self.next(); return self.  `seen` lists
\* the elements the calls of self.next() returned, `val` is what the method
\* hands back besides the wrapper itself: nothing.
RECURSIVE iter_skip(_, _)
iter_skip(i, n) ==
  IF n <= 0 THEN [exc |-> "none", it |-> i, seen |-> <<>>, val |-> <<>>]
  ELSE LET r == iter_next(i)
       IN IF r.exc # "none"
            THEN [exc |-> r.exc, it |-> r.it, seen |-> <<>>, val |-> <<>>]
            ELSE LET s == iter_skip(r.it, n - 1)
                 IN [exc |-> s.exc, it |-> s.it, seen |-> r.val \o s.seen, val |-> <<>>]

\* iter.nth: self.skip(n); return self.next()
iter_nth(i, n) ==
  LET s == iter_skip(i, n)
  IN IF s.exc # "none"
       THEN [exc |-> s.exc, it |-> s.it, seen |-> s.seen, val |-> <<>>]
       ELSE LET r == iter_next(s.it)
            IN [exc |-> r.exc, it |-> r.it, seen |-> s.seen \o r.val, val |-> r.val]

\* The generator expression of iter.take: (self.next() for _ in range(n)),
\* run to its end by tuple().
RECURSIVE take_genexpr(_, _)
take_genexpr(i, n) ==
  IF n <= 0 THEN [exc |-> "none", it |-> i, seen |-> <<>>]
  ELSE LET r == iter_next(i)
       IN IF r.exc # "none"
            THEN [exc |-> GenExprRaise(r.exc), it |-> r.it, seen |-> <<>>]
            ELSE LET s == take_genexpr(r.it, n - 1)
                 IN [exc |-> s.exc, it |-> s.it, seen |-> r.val \o s.seen]

\* iter.take: return tuple(<genexpr>); nothing is returned when it raises.
iter_take(i, n) ==
  LET g == take_genexpr(i, n)
  IN [exc |-> g.exc, it |-> g.it, seen |-> g.seen,
      val |-> IF g.exc = "none" THEN g.seen ELSE <<>>]

\* ------------------------------------------------------- terminal methods
BinOps == {"add", "mul"}

Initials == {0, 1}

Apply2(f, a, b) == IF f = "add" THEN a + b ELSE a * b

RECURSIVE FoldLeft(_, _, _)
FoldLeft(f, acc, s) ==
  IF s = <<>> THEN acc ELSE FoldLeft(f, Apply2(f, acc, Head(s)), Tail(s))

\* functools.reduce(function, iterable[, initial]): without initial the first
\* element seeds the fold, and an empty iterable raises TypeError("reduce() of
\* empty iterable with no initial value").
functools_reduce(f, i, hasInitial, initial) ==
  IF hasInitial
    THEN [exc |-> "none", val |-> <<FoldLeft(f, initial, i)>>]
  ELSE IF i = <<>>
    THEN [exc |-> "TypeError", val |-> <<>>]
  ELSE [exc |-> "none", val |-> <<FoldLeft(f, Head(i), Tail(i))>>]

\* iter.reduce
iter_reduce(f, i, hasInitial, initial) ==
  IF ~hasInitial
    THEN functools_reduce(f, i, FALSE, 0)
    ELSE functools_reduce(f, i, TRUE, initial)

\* builtins.min / builtins.max of an iterable: ValueError when it is empty.
builtin_min(i) ==
  IF i = <<>> THEN [exc |-> "ValueError", val |-> <<>>]
  ELSE [exc |-> "none",
        val |-> <<CHOOSE m \in {i[k] : k \in 1..Len(i)} :
                    \A k \in 1..Len(i) : m <= i[k]>>]

builtin_max(i) ==
  IF i = <<>> THEN [exc |-> "ValueError", val |-> <<>>]
  ELSE [exc |-> "none",
        val |-> <<CHOOSE m \in {i[k] : k \in 1..Len(i)} :
                    \A k \in 1..Len(i) : m >= i[k]>>]

\* iter.min, iter.max (key = None)
iter_min(i) == builtin_min(i)

iter_max(i) == builtin_max(i)

\* iter.collect: list(self)
iter_collect(i) == [exc |-> "none", val |-> i]

\* builtins.sorted(iterable, key=None, reverse=...): a stable insertion into
\* place; with reverse the order is descending, equal elements keeping their
\* original order.
RECURSIVE InsertSorted(_, _, _)
InsertSorted(x, s, reverse) ==
  IF s = <<>> THEN <<x>>
  ELSE IF (IF reverse THEN Head(s) < x ELSE x < Head(s))
    THEN <<x>> \o s
  ELSE <<Head(s)>> \o InsertSorted(x, Tail(s), reverse)

RECURSIVE builtin_sorted(_, _)
builtin_sorted(i, reverse) ==
  IF i = <<>> THEN <<>>
  ELSE InsertSorted(i[Len(i)], builtin_sorted(Prefix(i, Len(i) - 1), reverse), reverse)

\* ------------------------------------------------- materialising methods
\* What the class iter defines besides its public methods: __init__,
\* __iter__ and __repr__ (and nothing else: no __reversed__, __len__ or
\* __getitem__).
IterDunders == {"__init__", "__iter__", "__repr__"}

\* builtins.reversed(seq): needs __reversed__, or the sequence protocol
\* (__len__ and __getitem__); any other object raises TypeError("... object
\* is not reversible").  On success nothing has been read yet.
builtin_reversed(dunders) ==
  IF "__reversed__" \in dunders \/ {"__len__", "__getitem__"} \subseteq dunders
    THEN "none"
    ELSE "TypeError"

\* The positional arguments the source hands to itertools.accumulate.
FuncObj == [type |-> "function", name |-> "operator.add"]

SelfObj == [type |-> "iter", name |-> "self"]

InitialObj == [type |-> "int", name |-> "initial"]

IterableTypes == {"iter", "list", "tuple", "range"}

\* itertools.accumulate(iterable, func=None, *, initial=None): at most two
\* positional arguments, the first of which must be iterable.
itertools_accumulate(args) ==
  IF Len(args) > 2 THEN "TypeError"
  ELSE IF args[1].type \notin IterableTypes THEN "TypeError"
  ELSE "none"

\* iter.accumulate: itertools.accumulate(func, self) or
\* itertools.accumulate(func, self, initial).
iter_accumulate(hasInitial) ==
  IF ~hasInitial
    THEN itertools_accumulate(<<FuncObj, SelfObj>>)
    ELSE itertools_accumulate(<<FuncObj, SelfObj, InitialObj>>)

\* ---------------------------------------------------- lazy inner iterators
\* Each returns what one __next__ of the inner iterator does: the exception
\* raised, the value yielded, and the new state of the shared iterator `i`
\* and of the inner iterator's own fields.

\* map(func, self).__next__
map_next(dd, i) ==
  LET r == PyNext(i)
  IN [exc |-> r.exc, it |-> r.it, d |-> dd,
      val |-> IF r.exc = "none" THEN <<Apply(dd.arg, r.val[1])>> ELSE <<>>]

\* filter(pred, self).__next__: pulls until an element passes.
RECURSIVE filter_next(_, _)
filter_next(dd, i) ==
  LET r == PyNext(i)
  IN IF r.exc # "none" THEN [exc |-> r.exc, it |-> r.it, d |-> dd, val |-> <<>>]
     ELSE IF Truth(dd.arg, r.val[1])
       THEN [exc |-> "none", it |-> r.it, d |-> dd, val |-> r.val]
     ELSE filter_next(dd, r.it)

\* A zip round that hands out the short tuple it had when a slot ran dry.
RECURSIVE zip_round_short(_, _, _)
zip_round_short(k, i, acc) ==
  IF k = 0 THEN [exc |-> "none", it |-> i, val |-> acc]
  ELSE LET r == PyNext(i)
       IN IF r.exc # "none"
            THEN [exc |-> IF acc = <<>> THEN r.exc ELSE "none", it |-> r.it, val |-> acc]
          ELSE zip_round_short(k - 1, r.it, acc \o r.val)

\* zip(*[iterator] * k).__next__: no iterators, no tuples; otherwise one pull
\* per slot, and the first exhausted slot ends the zip, which drops the
\* elements already pulled for this tuple.
RECURSIVE zip_round(_, _, _)
zip_round(k, i, acc) ==
  IF k = 0 THEN [exc |-> "none", it |-> i, val |-> acc]
  ELSE LET r == PyNext(i)
       IN IF r.exc # "none" THEN [exc |-> r.exc, it |-> r.it, val |-> <<>>]
          ELSE zip_round(k - 1, r.it, acc \o r.val)

zip_next(dd, i) ==
  LET k == Len(dd.active)
      r == zip_round(k, i, <<>>)
  IN IF k = 0 THEN [exc |-> "StopIteration", it |-> i, d |-> dd, val |-> <<>>]
     ELSE [exc |-> r.exc, it |-> r.it, d |-> dd, val |-> r.val]

NumActive(active) == Cardinality({j \in 1..Len(active) : active[j]})

\* itertools.zip_longest(*[iterator] * k, fillvalue=default).__next__: a slot
\* whose pull fails is retired and filled; the tuple is given up when the
\* last active slot is retired.
RECURSIVE zip_longest_round(_, _, _, _, _)
zip_longest_round(j, i, active, fill, acc) ==
  IF j > Len(active) THEN [exc |-> "none", it |-> i, active |-> active, val |-> acc]
  ELSE IF ~active[j]
    THEN zip_longest_round(j + 1, i, active, fill, acc \o <<fill>>)
  ELSE LET r == PyNext(i)
           retired == [active EXCEPT ![j] = FALSE]
       IN IF r.exc = "none"
            THEN zip_longest_round(j + 1, r.it, active, fill, acc \o r.val)
          ELSE IF NumActive(retired) = 0
            THEN [exc |-> "StopIteration", it |-> r.it, active |-> retired, val |-> <<>>]
          ELSE zip_longest_round(j + 1, r.it, retired, fill, acc \o <<fill>>)

zip_longest_next(dd, i) ==
  LET r == zip_longest_round(1, i, dd.active, dd.fill, <<>>)
  IN IF Len(dd.active) = 0 \/ NumActive(dd.active) = 0
       THEN [exc |-> "StopIteration", it |-> i, d |-> dd, val |-> <<>>]
       ELSE [exc |-> r.exc, it |-> r.it, val |-> r.val,
             d |-> [dd EXCEPT !.active = r.active]]

\* The first loop of iter._window: window_size calls of self.next(), the
\* generator returning at the first StopIteration.
RECURSIVE window_seed(_, _, _)
window_seed(n, i, elements) ==
  IF n <= 0 THEN [exc |-> "none", it |-> i, elements |-> elements]
  ELSE LET r == iter_next(i)
       IN IF r.exc # "none" THEN [exc |-> r.exc, it |-> r.it, elements |-> elements]
          ELSE window_seed(n - 1, r.it, Append(elements, r.val[1]))

\* A _window whose second loop forgets elements.popleft().
window_next_grow(dd, i) ==
  IF dd.phase = "created"
    THEN LET s == window_seed(dd.n, i, <<>>)
         IN IF s.exc # "none"
              THEN [exc |-> "StopIteration", it |-> s.it, val |-> <<>>,
                    d |-> [dd EXCEPT !.phase = "finished", !.elements = s.elements]]
              ELSE [exc |-> "none", it |-> s.it, val |-> s.elements,
                    d |-> [dd EXCEPT !.phase = "yielded", !.elements = s.elements]]
  ELSE IF dd.phase = "yielded"
    THEN LET r == PyNext(i)
             el == Append(dd.elements, r.val[1])
         IN IF r.exc # "none"
              THEN [exc |-> "StopIteration", it |-> r.it, val |-> <<>>,
                    d |-> [dd EXCEPT !.phase = "finished"]]
              ELSE [exc |-> "none", it |-> r.it, val |-> el,
                    d |-> [dd EXCEPT !.elements = el]]
  ELSE [exc |-> "StopIteration", it |-> i, val |-> <<>>, d |-> dd]

\* One resumption of the generator iter._window, up to its next yield, its
\* return (StopIteration for the caller) or the exception it raises.
\* deque.popleft() on an empty deque raises IndexError.
window_next(dd, i) ==
  IF dd.phase = "created"
    THEN LET s == window_seed(dd.n, i, <<>>)
         IN IF s.exc # "none"
              THEN [exc |-> "StopIteration", it |-> s.it, val |-> <<>>,
                    d |-> [dd EXCEPT !.phase = "finished", !.elements = s.elements]]
              ELSE [exc |-> "none", it |-> s.it, val |-> s.elements,
                    d |-> [dd EXCEPT !.phase = "yielded", !.elements = s.elements]]
  ELSE IF dd.phase = "yielded"
    THEN LET r == PyNext(i)
         IN IF r.exc # "none"
              THEN [exc |-> "StopIteration", it |-> r.it, val |-> <<>>,
                    d |-> [dd EXCEPT !.phase = "finished"]]
            ELSE IF dd.elements = <<>>
              THEN [exc |-> "IndexError", it |-> r.it, val |-> <<>>,
                    d |-> [dd EXCEPT !.phase = "finished"]]
            ELSE LET el == Append(Tail(dd.elements), r.val[1])
                 IN [exc |-> "none", it |-> r.it, val |-> el,
                     d |-> [dd EXCEPT !.elements = el]]
  ELSE [exc |-> "StopIteration", it |-> i, val |-> <<>>, d |-> dd]

\* itertools.chain(self, other).__next__
chain_next(dd, i) ==
  LET r == PyNext(i)
      o == PyNext(dd.other)
  IN IF r.exc = "none" THEN [exc |-> "none", it |-> r.it, val |-> r.val, d |-> dd]
     ELSE [exc |-> o.exc, it |-> r.it, val |-> o.val, d |-> [dd EXCEPT !.other = o.it]]

\* The iterator of the list sorted() or reversed() built.
list_next(dd, i) ==
  LET r == PyNext(dd.elements)
  IN [exc |-> r.exc, it |-> i, val |-> r.val, d |-> [dd EXCEPT !.elements = r.it]]

\* itertools.accumulate(iterable, func).__next__: the first element as it
\* is, then func(total, element).
accumulate_next(dd, i) ==
  LET r == PyNext(i)
      total == IF dd.elements = <<>> THEN r.val
               ELSE <<Apply2(dd.arg, dd.elements[1], r.val[1])>>
  IN IF r.exc # "none" THEN [exc |-> r.exc, it |-> r.it, val |-> <<>>, d |-> dd]
     ELSE [exc |-> "none", it |-> r.it, val |-> total,
           d |-> [dd EXCEPT !.elements = total]]

\* next(self.it) on the wrapper the transformation returned.
inner_next(dd, i) ==
  CASE dd.kind = "map" -> map_next(dd, i)
    [] dd.kind = "filter" -> filter_next(dd, i)
    [] dd.kind = "chunk" -> zip_next(dd, i)
    [] dd.kind = "chunk_default" -> zip_longest_next(dd, i)
    [] dd.kind = "window" -> window_next(dd, i)
    [] dd.kind = "chain" -> chain_next(dd, i)
    [] dd.kind = "accumulate" -> accumulate_next(dd, i)
    [] OTHER -> list_next(dd, i)

\* list(self) on that wrapper: __next__ until StopIteration; any other
\* exception escapes and the list is lost.
RECURSIVE drain(_, _, _)
drain(dd, i, acc) ==
  LET r == inner_next(dd, i)
  IN IF r.exc # "none" THEN [exc |-> r.exc, it |-> r.it, d |-> r.d, items |-> acc]
     ELSE drain(r.d, r.it, Append(acc, r.val))

\* ----------------------------------------------------------------- state
NoCall == [op |-> "new", n |-> 0, ret |-> <<>>, exc |-> "none"]

NoDerived ==
  [kind |-> "none", n |-> 0, arg |-> "", fill |-> 0, phase |-> "created",
   elements |-> <<>>, active |-> <<>>, other |-> <<>>]

NoOut == [items |-> <<>>, end |-> "none"]

NoTee == [on |-> FALSE, buf |-> <<>>, cur |-> <<0, 0>>,
          outs |-> <<<<>>, <<>>>>, done |-> <<FALSE, FALSE>>]

\* iter.__init__: self.it = builtins.iter(it)
Init ==
  /\ P \in SeqsUpTo(MaxLen)
  /\ it = P
  /\ consumed = <<>>
  /\ call = NoCall
  /\ d = NoDerived
  /\ out = NoOut
  /\ tee = NoTee

\* ------------------------------------------------ transformation methods
\* Each returns the exception raised by the call, the shared iterator after
\* the call and the wrapper type(self)(...) it returns.
Derived(kind, n, arg) == [NoDerived EXCEPT !.kind = kind, !.n = n, !.arg = arg]

\* A list repetition that never comes out empty.
SlotsAtLeastOne(k) == [j \in 1..(IF k > 0 THEN k ELSE 1) |-> TRUE]

\* [x] * k: k copies, none when k <= 0.
Slots(k) == [j \in 1..(IF k > 0 THEN k ELSE 0) |-> TRUE]

\* iter.map: type(self)(map(func, self))
iter_map(i, func) == [exc |-> "none", it |-> i, d |-> Derived("map", 0, func)]

\* iter.filter: type(self)(filter(pred, self))
iter_filter(i, pred) == [exc |-> "none", it |-> i, d |-> Derived("filter", 0, pred)]

\* chunk(iterable, chunk_size): zip(*[builtins.iter(iterable)] * chunk_size)
chunk(i, chunk_size) ==
  [exc |-> "none", it |-> i,
   d |-> [Derived("chunk", chunk_size, "") EXCEPT !.active = Slots(chunk_size)]]

\* chunk_default(iterable, chunk_size, default):
\* itertools.zip_longest(*[builtins.iter(iterable)] * chunk_size, fillvalue=default)
chunk_default(i, chunk_size, default) ==
  [exc |-> "none", it |-> i,
   d |-> [Derived("chunk_default", chunk_size, "")
            EXCEPT !.active = Slots(chunk_size), !.fill = default]]

\* iter.chunk: type(self)(chunk(self, n))
iter_chunk(i, n) == chunk(i, n)

\* iter.chunk_default: type(self)(chunk_default(self, n, default))
iter_chunk_default(i, n, default) == chunk_default(i, n, default)

\* A window that fills its first window when it is called.
iter_window_eager(i, window_size) ==
  LET s == window_seed(window_size, i, <<>>)
  IN [exc |-> "none", it |-> s.it,
      d |-> [Derived("window", window_size, "") EXCEPT !.elements = s.elements]]

\* iter.window: type(self)(self._window(window_size)); calling a generator
\* function runs none of its body.
iter_window(i, window_size) ==
  [exc |-> "none", it |-> i, d |-> Derived("window", window_size, "")]

\* iter.chain: type(self)(itertools.chain(self, other))
iter_chain(i, other) ==
  [exc |-> "none", it |-> i, d |-> [Derived("chain", 0, "") EXCEPT !.other = other]]

\* iter.sorted: type(self)(sorted(self, key=key, reverse=reverse)); the
\* built-in reads the whole iterator.
iter_sorted(i, reverse) ==
  [exc |-> "none", it |-> <<>>,
   d |-> [Derived("list", 0, IF reverse THEN "desc" ELSE "asc")
            EXCEPT !.elements = builtin_sorted(i, reverse)]]

\* iter.reversed: type(self)(reversed(self)), self being an instance of iter.
\* `order` is how the receiver's elements were ordered ("asc" or "desc" from
\* sorted, "" otherwise).
iter_reversed(remaining, order) ==
  LET e == builtin_reversed(IterDunders)
  IN [exc |-> e,
      d |-> [Derived("list", 0, IF order = "asc" THEN "asc-reversed"
                                ELSE IF order = "desc" THEN "desc-reversed"
                                ELSE "reversed")
               EXCEPT !.elements = IF e = "none" THEN Reverse(remaining) ELSE <<>>]]

\* iter.tee: itertools.tee(self, n) with n = 2: two cursors into one buffer
\* of the elements pulled from the shared iterator so far.
iter_tee(i) ==
  [exc |-> "none", it |-> i,
   tee |-> [on |-> TRUE, buf |-> <<>>, cur |-> <<0, 0>>,
            outs |-> <<<<>>, <<>>>>, done |-> <<FALSE, FALSE>>]]

\* A tee whose branches read the shared iterator without the buffer.
tee_next_unbuffered(t, i, b) ==
  LET r == PyNext(i)
  IN [exc |-> r.exc, it |-> r.it, val |-> r.val,
      tee |-> IF r.exc = "none" THEN [t EXCEPT !.cur[b] = @ + 1] ELSE t]

\* __next__ of branch b of the tee: the buffered element under its cursor,
\* or a fresh one pulled from the shared iterator and appended to the buffer.
tee_next(t, i, b) ==
  IF t.cur[b] < Len(t.buf)
    THEN [exc |-> "none", it |-> i, val |-> <<t.buf[t.cur[b] + 1]>>,
          tee |-> [t EXCEPT !.cur[b] = @ + 1]]
  ELSE LET r == PyNext(i)
       IN IF r.exc # "none" THEN [exc |-> r.exc, it |-> r.it, val |-> <<>>, tee |-> t]
          ELSE [exc |-> "none", it |-> r.it, val |-> r.val,
                tee |-> [t EXCEPT !.buf = Append(@, r.val[1]), !.cur[b] = @ + 1]]

\* The wrapper still owns its producer alone: nothing was built from it and
\* no terminal call has drained it.
Sole ==
  /\ d.kind = "none"
  /\ ~tee.on
  /\ call.op \notin {"reduce", "min", "max", "collect"}

\* The elements the wrapper held when the consuming calls were over.
Remaining == Drop(P, Len(consumed))

Called(op, n, r) == [op |-> op, n |-> n, ret |-> r.val, exc |-> r.exc]

Consume(op, n, r) ==
  /\ it' = r.it
  /\ consumed' = consumed \o r.seen
  /\ call' = Called(op, n, r)
  /\ UNCHANGED <<P, d, out, tee>>

CallNext == Sole /\ Consume("next", 0, iter_next(it))

CallSkip == Sole /\ \E n \in Sizes : Consume("skip", n, iter_skip(it, n))

CallNth == Sole /\ \E n \in Sizes : Consume("nth", n, iter_nth(it, n))

CallTake == Sole /\ \E n \in Sizes : Consume("take", n, iter_take(it, n))

\* A terminal call reads the whole iterator and returns a value.
Terminal(op, n, r) ==
  /\ it' = <<>>
  /\ call' = Called(op, n, r)
  /\ UNCHANGED <<P, consumed, d, out, tee>>

CallReduce ==
  /\ Sole
  /\ \E f \in BinOps :
       \/ Terminal("reduce", 0, iter_reduce(f, it, FALSE, 0))
       \/ \E initial \in Initials : Terminal("reduce", 1 + initial, iter_reduce(f, it, TRUE, initial))

CallMin == Sole /\ Terminal("min", 0, iter_min(it))

CallMax == Sole /\ Terminal("max", 0, iter_max(it))

CallCollect == Sole /\ Terminal("collect", 0, iter_collect(it))

\* A transformation returns a new wrapper over the same iterator.
Transform(op, n, r) ==
  /\ it' = r.it
  /\ d' = IF r.exc = "none" THEN r.d ELSE d
  /\ call' = [op |-> op, n |-> n, ret |-> <<>>, exc |-> r.exc]
  /\ UNCHANGED <<P, consumed, out, tee>>

CallMap == Sole /\ \E f \in Funcs : Transform("map", 0, iter_map(it, f))

CallFilter == Sole /\ \E p \in Preds : Transform("filter", 0, iter_filter(it, p))

CallChunk == Sole /\ \E n \in Sizes : Transform("chunk", n, iter_chunk(it, n))

CallChunkDefault ==
  Sole /\ \E n \in Sizes, default \in Defaults :
            Transform("chunk_default", n, iter_chunk_default(it, n, default))

CallWindow == Sole /\ \E n \in Sizes : Transform("window", n, iter_window(it, n))

CallChain == Sole /\ \E other \in Others : Transform("chain", 0, iter_chain(it, other))

CallSorted == Sole /\ \E reverse \in BOOLEAN : Transform("sorted", 0, iter_sorted(it, reverse))

\* reversed() on w itself, or on the wrapper sorted() has just returned.
CallReversed ==
  /\ \/ Sole
     \/ d.kind = "list" /\ d.arg \in {"asc", "desc"} /\ out = NoOut
  /\ LET r == iter_reversed(IF d.kind = "list" THEN d.elements ELSE it, d.arg)
     IN /\ call' = [op |-> "reversed", n |-> 0, ret |-> <<>>, exc |-> r.exc]
        /\ d' = IF r.exc = "none" THEN r.d ELSE d
        /\ it' = IF r.exc = "none" THEN <<>> ELSE it
  /\ UNCHANGED <<P, consumed, out, tee>>

CallAccumulate ==
  /\ Sole
  /\ \E hasInitial \in BOOLEAN :
       LET e == iter_accumulate(hasInitial)
       IN /\ call' = [op |-> "accumulate", n |-> IF hasInitial THEN 1 ELSE 0,
                      ret |-> <<>>, exc |-> e]
          /\ d' = IF e = "none" THEN Derived("accumulate", 0, "add") ELSE d
  /\ UNCHANGED <<P, it, consumed, out, tee>>

Driveable == d.kind # "none" /\ out.end = "none"

\* One d.next(), as a for loop over d makes it.
DriveNext ==
  /\ Driveable
  /\ LET r == inner_next(d, it)
     IN /\ it' = r.it
        /\ d' = r.d
        /\ out' = IF r.exc = "none" THEN [out EXCEPT !.items = Append(@, r.val)]
                  ELSE [out EXCEPT !.end = r.exc]
        /\ call' = Called("d.next", 0, r)
  /\ UNCHANGED <<P, consumed, tee>>

\* d.collect(): list(d).
DriveCollect ==
  /\ Driveable
  /\ LET r == drain(d, it, <<>>)
     IN /\ it' = r.it
        /\ d' = r.d
        /\ out' = [items |-> out.items \o r.items, end |-> r.exc]
        /\ call' = [op |-> "d.collect", n |-> 0, ret |-> <<>>,
                    exc |-> IF r.exc = "StopIteration" THEN "none" ELSE r.exc]
  /\ UNCHANGED <<P, consumed, tee>>

CallTee ==
  /\ Sole
  /\ LET r == iter_tee(it)
     IN /\ it' = r.it
        /\ tee' = r.tee
        /\ call' = [op |-> "tee", n |-> 2, ret |-> <<>>, exc |-> r.exc]
  /\ UNCHANGED <<P, consumed, d, out>>

\* One next() on branch b of the tee.
TeeNext ==
  /\ tee.on
  /\ \E b \in 1..2 :
       /\ ~tee.done[b]
       /\ LET r == tee_next(tee, it, b)
          IN /\ it' = r.it
             /\ tee' = IF r.exc = "none"
                         THEN [r.tee EXCEPT !.outs[b] = @ \o r.val]
                         ELSE [r.tee EXCEPT !.done[b] = TRUE]
             /\ call' = Called("tee.next", b, r)
  /\ UNCHANGED <<P, consumed, d, out>>

\* ---------------------------------------------------------------- claims
Max0(n) == IF n > 0 THEN n ELSE 0

Lazy == {"map", "filter", "chunk", "chunk_default", "window", "chain"}

RunningFold(s) == [k \in 1..Len(s) |-> <<FoldLeft("add", s[1], SubSeq(s, 2, k))>>]

\* C1: accumulate() without initial (default function: addition) raises
\* nothing and returns a wrapper that yields exactly one value per remaining
\* element, the i-th being the left fold of the first i elements, so the
\* first is the first element itself.
C1_AccumulateRunningFold ==
  /\ (call.op = "accumulate" /\ call.n = 0) =>
       (call.exc = "none" /\ d.kind = "accumulate")
  /\ (d.kind = "accumulate" /\ out.end # "none") =>
       (out.end = "StopIteration" /\ out.items = RunningFold(Remaining))

\* C2: on pairwise distinct elements, sorted() and then reversed() gives a
\* wrapper that collects to the ascending sorted output in reverse order.
C2_SortedThenReversed ==
  (/\ call.op = "reversed"
   /\ d.kind = "list"
   /\ d.arg \in {"asc", "asc-reversed"}
   /\ Distinct(Remaining)) =>
     /\ call.exc = "none"
     /\ d.arg = "asc-reversed"
     /\ d.elements = Reverse(builtin_sorted(Remaining, FALSE))

\* C3: take(n) with at least n elements remaining returns exactly the next n
\* elements in order; with fewer it returns no group and fails with the
\* exhaustion failure, the StopIteration that next raises.
C3_TakeAllOrStopIteration ==
  [][\A n \in Sizes :
       (call'.op = "take" /\ call'.n = n) =>
         IF Len(it) >= n
           THEN /\ call'.exc = "none"
                /\ call'.ret = Prefix(it, Max0(n))
                /\ it' = Drop(it, Max0(n))
           ELSE /\ call'.ret = <<>>
                /\ call'.exc = "StopIteration"]_vars

\* What a call signals when the wrapper holds fewer elements than it needs:
\* next, skip and nth signal StopIteration, reduce without initial signals
\* eReduce, min and max signal eMinMax, and reduce with an initial value
\* returns that value.
UnderflowSignals(eReduce, eMinMax) ==
  /\ (call'.op = "next" /\ it = <<>>) => call'.exc = "StopIteration"
  /\ \A n \in Sizes :
       /\ (call'.op = "skip" /\ call'.n = n /\ Len(it) < n) =>
            call'.exc = "StopIteration"
       /\ (call'.op = "nth" /\ call'.n = n /\ Len(it) < Max0(n) + 1) =>
            call'.exc = "StopIteration"
  /\ (call'.op = "reduce" /\ call'.n = 0 /\ it = <<>>) => call'.exc = eReduce
  /\ (call'.op \in {"min", "max"} /\ it = <<>>) => call'.exc = eMinMax
  /\ \A initial \in Initials :
       (call'.op = "reduce" /\ call'.n = 1 + initial /\ it = <<>>) =>
         (call'.exc = "none" /\ call'.ret = <<initial>>)

\* C4 as stated: next, skip, nth, reduce without initial, min and max all
\* signal the exhaustion failure that next signals (StopIteration) when the
\* wrapper holds too few elements; reduce with initial returns the initial.
C4_UnderflowIsStopIteration == [][UnderflowSignals("StopIteration", "StopIteration")]_vars

\* C4 amended: next, skip and nth signal StopIteration; on an exhausted
\* wrapper reduce without initial signals TypeError and min and max signal
\* ValueError; reduce with initial returns the initial value.
C4_UnderflowSignals == [][UnderflowSignals("TypeError", "ValueError")]_vars

C4_Witness ==
  /\ call.op = "reduce"
  /\ call.n = 0
  /\ call.exc = "TypeError"
  /\ Len(consumed) >= 2

\* C5 as stated: chunk, chunk_default and window called with a size n <= 0
\* signal a precondition violation at the call, and return no wrapper.
C5_NonPositiveSizeRejected ==
  (call.op \in {"chunk", "chunk_default", "window"} /\ call.n <= 0) =>
    (call.exc # "none" /\ d.kind = "none")

\* C5 amended: with n <= 0 the call signals nothing, pulls nothing and
\* returns a wrapper.  Driven, the wrapper of chunk and chunk_default yields
\* no group and ends at once, pulling nothing; the wrapper of window first
\* yields one empty group, pulling nothing, and at the next pull ends if no
\* element remains and otherwise takes one element and raises IndexError.
C5_NonPositiveSize ==
  /\ (call.op \in {"chunk", "chunk_default", "window"} /\ call.n <= 0) =>
       (call.exc = "none" /\ d.kind = call.op /\ d.n = call.n /\ it = Remaining)
  /\ (d.kind \in {"chunk", "chunk_default"} /\ d.n <= 0) =>
       /\ out.items = <<>>
       /\ out.end \in {"none", "StopIteration"}
       /\ it = Remaining
  /\ (d.kind = "window" /\ d.n <= 0) =>
       /\ out.items \in {<<>>, <<<<>>>>}
       /\ out.items = <<>> => (out.end = "none" /\ it = Remaining)
       /\ out.end = "none" => it = Remaining
       /\ out.end = "StopIteration" => (Remaining = <<>> /\ it = <<>>)
       /\ out.end = "IndexError" => (Remaining # <<>> /\ it = Tail(Remaining))
       /\ out.end \in {"none", "StopIteration", "IndexError"}

C5_Witness ==
  /\ d.kind = "window"
  /\ d.n <= 0
  /\ out.items = <<<<>>>>
  /\ out.end = "IndexError"

\* C6: each of the two wrappers tee() returns yields exactly the elements
\* the wrapper held at the split, in order, whatever the interleaving of the
\* pulls on the two branches.
C6_TeeBranchesReplay ==
  tee.on =>
    \A b \in 1..2 :
      /\ Len(tee.outs[b]) <= Len(Remaining)
      /\ tee.outs[b] = Prefix(Remaining, Len(tee.outs[b]))
      /\ tee.done[b] => tee.outs[b] = Remaining

C6_Witness ==
  /\ tee.on
  /\ tee.done[2]
  /\ ~tee.done[1]
  /\ Len(tee.outs[1]) = 2
  /\ Len(tee.outs[2]) >= 3
  /\ consumed # <<>>

\* C7: a call of map, filter, chunk, chunk_default, window or chain pulls no
\* element: until the returned wrapper is driven, the shared iterator holds
\* exactly what the receiver held before the call.
C7_TransformationsAreLazy ==
  (d.kind \in Lazy /\ out = NoOut) => (it = Remaining /\ call.exc = "none")

C7_Witness ==
  /\ d.kind = "window"
  /\ d.n = 2
  /\ out = NoOut
  /\ Len(it) >= 2
  /\ consumed # <<>>

\* C8: for n >= 1, chunk(n) never fails; collected, it has floor(len/n)
\* groups of exactly n elements each, and the groups concatenated are the
\* first n * floor(len/n) elements in order: a short last group is dropped.
C8_ChunkGroups ==
  (d.kind = "chunk" /\ d.n >= 1) =>
    /\ out.end \in {"none", "StopIteration"}
    /\ \A g \in 1..Len(out.items) : Len(out.items[g]) = d.n
    /\ Flatten(out.items) = Prefix(Remaining, d.n * Len(out.items))
    /\ out.end = "StopIteration" => Len(out.items) = Len(Remaining) \div d.n

C8_Witness ==
  /\ d.kind = "chunk"
  /\ d.n = 2
  /\ out.end = "StopIteration"
  /\ Len(Remaining) = 3
  /\ Len(out.items) = 1

\* C9: for n >= 1, window(n) never fails; collected, it is empty when fewer
\* than n elements remain, and otherwise has len - n + 1 groups, the i-th
\* (from 0) being the slice [i, i + n) of the remaining elements.
C9_WindowSlices ==
  (d.kind = "window" /\ d.n >= 1) =>
    /\ out.end \in {"none", "StopIteration"}
    /\ \A g \in 1..Len(out.items) : out.items[g] = SubSeq(Remaining, g, g + d.n - 1)
    /\ Len(out.items) <= Max0(Len(Remaining) - d.n + 1)
    /\ out.end = "StopIteration" => Len(out.items) = Max0(Len(Remaining) - d.n + 1)

C9_Witness ==
  /\ d.kind = "window"
  /\ d.n = 2
  /\ out.end = "StopIteration"
  /\ Len(out.items) = 3

\* C10: the elements that next, skip, nth and take return or discard, in
\* call order, followed by the elements the wrapper still holds, are the
\* producer's sequence: the calls take consecutive elements and none is
\* yielded twice, also when a call fails for want of elements.
C10_ConsumedOnce ==
  Sole =>
    /\ consumed \o it = P
    /\ call.op \in {"next", "nth"} /\ call.exc = "none" =>
         call.ret = <<consumed[Len(consumed)]>>
    /\ call.op = "take" /\ call.exc = "none" =>
         call.ret = SubSeq(consumed, Len(consumed) - Max0(call.n) + 1, Len(consumed))

C10_Witness ==
  /\ call.op = "take"
  /\ call.exc # "none"
  /\ Len(consumed) >= 3
  /\ it = <<>>

Next ==
  \/ CallNext
  \/ CallSkip
  \/ CallNth
  \/ CallTake
  \/ CallReduce
  \/ CallMin
  \/ CallMax
  \/ CallCollect
  \/ CallMap
  \/ CallFilter
  \/ CallChunk
  \/ CallChunkDefault
  \/ CallWindow
  \/ CallChain
  \/ CallSorted
  \/ CallReversed
  \/ CallAccumulate
  \/ DriveNext
  \/ DriveCollect
  \/ CallTee
  \/ TeeNext

Spec == Init /\ [][Next]_vars
====
